---- MODULE Spec2Model ----
(***************************************************************************)
(* Maelstrom nodes (src/lib.rs, src/bin/*.rs): the envelope protocol, the  *)
(* node runtime main_loop (reader, tick thread, worker, one mpsc channel), *)
(* the node state machines (broadcast_3b, counter, echo, unique) and a     *)
(* cluster of broadcast_3b nodes exchanging gossip.                        *)
(*                                                                         *)
(* Three next-state relations share the step operators:                    *)
(*   NodeSpec     one node's step() fed arbitrary decoded messages         *)
(*   ProcSpec     one process running main_loop (ProcLiveSpec: fair)       *)
(*   Spec         a cluster of broadcast_3b nodes (LiveSpec: fair)         *)
(***************************************************************************)
EXTENDS Integers, Sequences, FiniteSets, TLC

VARIABLES
    variant,      \* which binary runs: "broadcast_3b", "counter", "echo", "unique"
    node,         \* [Nodes -> the Node value owned by that process's worker]
    stdout,       \* the lines process Self has written, in order
    workerPc,     \* worker thread of Self: "none", "recv", "step", "panicked"
    last,         \* history: None or Some(record of the last step taken)
    mainPc,       \* main thread of Self: position in main_loop
    tickPc,       \* tick thread of Self: "none" or "sleep"
    chan,         \* the mpsc channel's queue
    rxAlive,      \* the Receiver has not been dropped
    cur,          \* the message the worker received and is stepping on
    init_msg,     \* the decoded init message (None before it is read)
    exit,         \* None while the process runs, Some(status) after it ended
    nread,        \* number of input lines consumed after the handshake
    nticks,       \* number of ticks the tick thread has sent
    enqLog,       \* history: every event accepted by tx.send, in order
    procLog,      \* history: every event the worker received, in order
    inputEnd,     \* history: None, or how and when the reader stopped reading
    net,          \* cluster: gossip messages in flight between nodes
    broadcasted,  \* cluster history: values of all Broadcast requests processed
    budget,       \* cluster: client requests the harness will still send
    crashed,      \* cluster: nodes whose worker panicked
    covered       \* cluster history: covered[n][d], the values n held at a tick
                  \* on which d was one of its neighbors

coreVars == <<variant, node, stdout, workerPc, last>>
procVars == <<mainPc, tickPc, chan, rxAlive, cur, init_msg, exit, nread, nticks,
              enqLog, procLog, inputEnd>>
clusterVars == <<net, broadcasted, budget, crashed, covered>>
vars == <<coreVars, procVars, clusterVars>>

----------------------------------------------------------------------------
\* Bounds and inputs

\* messages fed to the node (NodeSpec)
MaxSteps == 3
\* lines the harness sends after the handshake (ProcSpec)
MaxInput == 2
\* ticks the tick thread sends
MaxTicks == 2
\* client requests the harness sends to the cluster
MaxReqs == 2
\* gossip messages in flight in the cluster at one time
MaxInFlight == 0

Nodes == {"n1", "n2", "n3"}
NodeIds == <<"n1", "n2", "n3">>
Self == "n1"
Stranger == "n9"
Client == "c1"
Values == {5, 6}
Variants == {"broadcast_3b", "counter", "echo", "unique"}

\* Option<T>
None == {}
Some(x) == {x}
Get(opt) == CHOOSE x \in opt : TRUE

ReqIds == {None, Some(7)}

Min(a, b) == IF a <= b THEN a ELSE b
Max(a, b) == IF a >= b THEN a ELSE b
Range(s) == {s[i] : i \in 1..Len(s)}

----------------------------------------------------------------------------
\* Envelope protocol (src/lib.rs)

Message(src, dst, id, in_reply_to, payload) ==
    [src |-> src, dst |-> dst,
     body |-> [id |-> id, in_reply_to |-> in_reply_to, payload |-> payload]]

\* into_reply correlating with the node's own counter instead of the request's id
into_reply_own_id(self, msg_id) ==
    [reply |-> Message(self.dst, self.src, msg_id, msg_id, self.body.payload),
     msg_id |-> {mid + 1 : mid \in msg_id}]

\* into_reply reading the counter without advancing it
into_reply_same_id(self, msg_id) ==
    [reply |-> Message(self.dst, self.src, msg_id, self.body.id, self.body.payload),
     msg_id |-> msg_id]

\* Message::into_reply: the reply and the counter after the post-increment
into_reply(self, msg_id) ==
    [reply |-> Message(self.dst, self.src, msg_id, self.body.id, self.body.payload),
     msg_id |-> {mid + 1 : mid \in msg_id}]

\* Message<InitMsg>::into_init_ok: Ok(message) or Err
into_init_ok(self) ==
    IF self.body.payload.type = "init"
    THEN Some(Message(self.dst, self.src, None, self.body.id, [type |-> "init_ok"]))
    ELSE None

InitBody(node_id, node_ids) == [type |-> "init", node_id |-> node_id, node_ids |-> node_ids]

----------------------------------------------------------------------------
\* Node values

NoNode == [id |-> "", msg_id |-> 0, messages |-> {}, neightbors |-> <<>>,
           known |-> <<>>, inner |-> <<>>]

\* Node::init_from of each binary (the tick thread it spawns is TickSend)
init_from(v, init) ==
    CASE v = "broadcast_3b" ->
            [id |-> init.node_id, msg_id |-> 1, messages |-> {},
             neightbors |-> init.node_ids,
             known |-> [n \in Range(init.node_ids) |-> {}], inner |-> <<>>]
      [] v = "counter" ->
            [id |-> init.node_id, msg_id |-> 1, messages |-> {},
             neightbors |-> init.node_ids, known |-> <<>>,
             inner |-> [n \in Range(init.node_ids) |-> 0]]
      [] v = "unique" ->
            [NoNode EXCEPT !.id = init.node_id, !.msg_id = 1]
      [] v = "echo" ->
            [NoNode EXCEPT !.msg_id = 1]

\* whether init_from spawns a tick thread holding a Sender
HasTicker(v) == v \in {"broadcast_3b", "counter"}

\* the outcome of one step: the node afterwards, the lines written, panic
Result(self, out, panic) == [node |-> self, out |-> out, panic |-> panic]

Reply(self, req, payload) ==
    LET r == into_reply(req, Some(self.msg_id)) IN
    [reply |-> [r.reply EXCEPT !.body.payload = payload], msg_id |-> Get(r.msg_id)]

----------------------------------------------------------------------------
\* broadcast_3b

\* a gossip message numbered like a first outbound message
GossipNumbered(src, dst, values) ==
    Message(src, dst, Some(1), None, [type |-> "extended", ext |-> "Gossip", messages |-> values])

Gossip(src, dst, values) ==
    Message(src, dst, None, None, [type |-> "extended", ext |-> "Gossip", messages |-> values])

GossipAlert == Message("", "", None, None, [type |-> "extended", ext |-> "GossipAlert"])

RatioNum == 3236
RatioDen == 10000

additional_cap(unknown, known) ==
    Min(Cardinality(unknown), (RatioNum * Cardinality(known)) \div RatioDen)

\* a sample drawn from known whatever the cap is
SamplesUncapped(unknown, known) == SUBSET known

\* rnd.gen_ratio(cap, len) on each element of known: never when cap = 0,
\* otherwise each element independently with probability cap/len
Samples(unknown, known) ==
    IF additional_cap(unknown, known) = 0 THEN {{}} ELSE SUBSET known

\* a tick that sends a neighbor what it already has instead of what it lacks
PayloadsOverlap(self, neighbor) ==
    LET known_msg == self.known[neighbor]
        known == self.messages \cap known_msg
        unknown == self.messages \ known_msg
    IN {known \cup s : s \in Samples(known, unknown)}

\* the payloads a tick can send to one neighbor
Payloads(self, neighbor) ==
    LET known_msg == self.known[neighbor]
        known == self.messages \cap known_msg
        unknown == self.messages \ known_msg
    IN {unknown \cup s : s \in Samples(unknown, known)}

\* index of the first neighbor without an entry in known (Len + 1 if none)
FirstMissing(self) ==
    LET bad == {i \in 1..Len(self.neightbors) : self.neightbors[i] \notin DOMAIN self.known}
    IN IF bad = {} THEN Len(self.neightbors) + 1
       ELSE CHOOSE i \in bad : \A j \in bad : i <= j

RECURSIVE GossipSeqs(_, _, _)
GossipSeqs(self, i, k) ==
    IF i >= k THEN {<<>>}
    ELSE {<<Gossip(self.id, self.neightbors[i], p)>> \o rest :
            p \in Payloads(self, self.neightbors[i]),
            rest \in GossipSeqs(self, i + 1, k)}

\* handle_external, GossipAlert: one gossip per neighbor in order; known[neighbor]
\* panics at the first neighbor without an entry, after the earlier sends
HandleGossipAlert(self) ==
    LET k == FirstMissing(self) IN
    {Result(self, out, k <= Len(self.neightbors)) : out \in GossipSeqs(self, 1, k)}

\* Gossip receipt that forgets to record what the sender has
HandleGossipNoKnown(self, req) ==
    LET messages == req.body.payload.messages IN
    IF req.src \notin DOMAIN self.known
    THEN {Result(self, <<>>, TRUE)}
    ELSE {Result([self EXCEPT !.messages = @ \cup messages], <<>>, FALSE)}

\* Gossip receipt that records what the sender has but does not keep the values
HandleGossipKnownOnly(self, req) ==
    LET messages == req.body.payload.messages IN
    IF req.src \notin DOMAIN self.known
    THEN {Result(self, <<>>, TRUE)}
    ELSE {Result([self EXCEPT !.known[req.src] = @ \cup messages], <<>>, FALSE)}

\* Gossip receipt that credits the values to every node it keeps track of
HandleGossipCreditAll(self, req) ==
    LET messages == req.body.payload.messages IN
    IF req.src \notin DOMAIN self.known
    THEN {Result(self, <<>>, TRUE)}
    ELSE {Result([self EXCEPT !.known = [n \in DOMAIN @ |-> @[n] \cup messages],
                              !.messages = @ \cup messages], <<>>, FALSE)}

\* Gossip receipt that replaces what it had recorded for the sender
HandleGossipOverwrite(self, req) ==
    LET messages == req.body.payload.messages IN
    IF req.src \notin DOMAIN self.known
    THEN {Result(self, <<>>, TRUE)}
    ELSE {Result([self EXCEPT !.known[req.src] = messages,
                              !.messages = @ \cup messages], <<>>, FALSE)}

\* handle_external, Gossip: known.get_mut(&req.src).expect(..) panics first
HandleGossip(self, req) ==
    LET messages == req.body.payload.messages IN
    IF req.src \notin DOMAIN self.known
    THEN {Result(self, <<>>, TRUE)}
    ELSE {Result([self EXCEPT !.known[req.src] = @ \cup messages,
                              !.messages = @ \cup messages], <<>>, FALSE)}

handle_external(self, req) ==
    IF req.body.payload.ext = "GossipAlert"
    THEN HandleGossipAlert(self)
    ELSE HandleGossip(self, req)

\* the Topology arm defaulting to an empty neighbor list when the map omits the node
HandleTopologyOrDefault(self, req) ==
    LET topology == req.body.payload.topology
        s1 == [self EXCEPT !.neightbors =
                  IF self.id \in DOMAIN topology THEN topology[self.id] ELSE <<>>]
        r == Reply(s1, req, [type |-> "topology_ok"])
    IN {Result([s1 EXCEPT !.msg_id = r.msg_id], <<r.reply>>, FALSE)}

\* the Topology arm appending the entry to the neighbors it already has
HandleTopologyMerge(self, req) ==
    LET topology == req.body.payload.topology IN
    IF self.id \notin DOMAIN topology
    THEN {Result(self, <<>>, TRUE)}
    ELSE LET s1 == [self EXCEPT !.neightbors = @ \o topology[self.id]]
             r == Reply(s1, req, [type |-> "topology_ok"])
         IN {Result([s1 EXCEPT !.msg_id = r.msg_id], <<r.reply>>, FALSE)}

\* BroadcastNode::step, Topology: topology.remove(&self.id).unwrap_or_else(panic)
HandleTopology(self, req) ==
    LET topology == req.body.payload.topology IN
    IF self.id \notin DOMAIN topology
    THEN {Result(self, <<>>, TRUE)}
    ELSE LET s1 == [self EXCEPT !.neightbors = topology[self.id]]
             r == Reply(s1, req, [type |-> "topology_ok"])
         IN {Result([s1 EXCEPT !.msg_id = r.msg_id], <<r.reply>>, FALSE)}

\* the Broadcast arm keeping only the newest value
HandleBroadcastReplace(self, req) ==
    LET s1 == [self EXCEPT !.messages = {req.body.payload.message}]
        r == Reply(s1, req, [type |-> "broadcast_ok"])
    IN {Result([s1 EXCEPT !.msg_id = r.msg_id], <<r.reply>>, FALSE)}

\* the Broadcast arm storing the request's id instead of its message
HandleBroadcastStoresId(self, req) ==
    LET s1 == [self EXCEPT !.messages = @ \cup req.body.id]
        r == Reply(s1, req, [type |-> "broadcast_ok"])
    IN {Result([s1 EXCEPT !.msg_id = r.msg_id], <<r.reply>>, FALSE)}

\* BroadcastNode::step, Broadcast: insert, then reply
HandleBroadcast(self, req) ==
    LET s1 == [self EXCEPT !.messages = @ \cup {req.body.payload.message}]
        r == Reply(s1, req, [type |-> "broadcast_ok"])
    IN {Result([s1 EXCEPT !.msg_id = r.msg_id], <<r.reply>>, FALSE)}

\* the Read arm without the second swap: the set stays in the reply
HandleReadNoSwapBack(self, req) ==
    LET tmp_messages == self.messages
        s1 == [self EXCEPT !.messages = {}]
        r == Reply(s1, req, [type |-> "read_ok", messages |-> tmp_messages])
    IN {Result([s1 EXCEPT !.msg_id = r.msg_id], <<r.reply>>, FALSE)}

\* BroadcastNode::step, Read: the set is swapped out into the reply, the reply
\* is written, and the set is swapped back from the reply
HandleRead(self, req) ==
    LET tmp_messages == self.messages
        s1 == [self EXCEPT !.messages = {}]
        r == Reply(s1, req, [type |-> "read_ok", messages |-> tmp_messages])
    IN {Result([s1 EXCEPT !.msg_id = r.msg_id,
                          !.messages = r.reply.body.payload.messages],
               <<r.reply>>, FALSE)}

\* a reply arm that treats the payload as unreachable, as counter, echo and
\* unique do
HandleStrayReplyUnreachable(self, req) == {Result(self, <<>>, TRUE)}

\* BroadcastNode::step, TopologyOk | BroadcastOk | ReadOk: the empty arm
HandleStrayReply(self, req) == {Result(self, <<>>, FALSE)}

\* BroadcastNode::step
BroadcastStep(self, req) ==
    LET p == req.body.payload IN
    CASE p.type = "broadcast" -> HandleBroadcast(self, req)
      [] p.type = "read" -> HandleRead(self, req)
      [] p.type = "topology" -> HandleTopology(self, req)
      [] p.type \in {"topology_ok", "broadcast_ok", "read_ok"} -> HandleStrayReply(self, req)
      [] p.type = "extended" -> handle_external(self, req)

----------------------------------------------------------------------------
\* counter

\* Counter::add
CounterAdd(counter, key, delta) ==
    IF key \in DOMAIN counter
    THEN [counter EXCEPT ![key] = @ + delta]
    ELSE [k \in DOMAIN counter \cup {key} |-> IF k = key THEN delta ELSE counter[k]]

RECURSIVE SumOver(_, _)
SumOver(counter, keys) ==
    IF keys = {} THEN 0
    ELSE LET k == CHOOSE x \in keys : TRUE
         IN counter[k] + SumOver(counter, keys \ {k})

\* Counter::sum
CounterSum(counter) == SumOver(counter, DOMAIN counter)

\* a merge in which the incoming value wins
CounterMergeOverwrite(mine, theirs) ==
    [k \in DOMAIN mine \cup DOMAIN theirs |->
        IF k \in DOMAIN theirs THEN theirs[k] ELSE mine[k]]

\* Counter::merge
CounterMerge(mine, theirs) ==
    [k \in DOMAIN mine \cup DOMAIN theirs |->
        IF k \notin DOMAIN theirs THEN mine[k]
        ELSE IF k \notin DOMAIN mine THEN theirs[k]
        ELSE Max(theirs[k], mine[k])]

CounterGossip(src, dst, counter) ==
    Message(src, dst, None, None, [type |-> "extended", ext |-> "Gossip", counter |-> counter])

\* BroadcastNode::send_to_neighbor for every neighbor other than the node itself
RECURSIVE CounterGossipSeq(_, _)
CounterGossipSeq(self, i) ==
    IF i > Len(self.neightbors) THEN <<>>
    ELSE (IF self.neightbors[i] # self.id
          THEN <<CounterGossip(self.id, self.neightbors[i], self.inner)>>
          ELSE <<>>) \o CounterGossipSeq(self, i + 1)

CounterStep(self, req) ==
    LET p == req.body.payload IN
    CASE p.type = "add" ->
            LET s1 == [self EXCEPT !.inner = CounterAdd(@, req.dst, p.delta)]
                r == Reply(s1, req, [type |-> "add_ok"])
            IN {Result([s1 EXCEPT !.msg_id = r.msg_id], <<r.reply>>, FALSE)}
      [] p.type = "read" ->
            LET r == Reply(self, req, [type |-> "read_ok", value |-> CounterSum(self.inner)])
            IN {Result([self EXCEPT !.msg_id = r.msg_id], <<r.reply>>, FALSE)}
      [] p.type = "extended" /\ p.ext = "GossipAlert" ->
            {Result(self, CounterGossipSeq(self, 1), FALSE)}
      [] p.type = "extended" /\ p.ext = "Gossip" ->
            {Result([self EXCEPT !.inner = CounterMerge(@, p.counter)], <<>>, FALSE)}
      [] p.type \in {"read_ok", "add_ok"} ->
            {Result(self, <<>>, TRUE)}

----------------------------------------------------------------------------
\* echo and unique: into_reply first, then the match on the payload

EchoStep(self, req) ==
    LET r == into_reply(req, Some(self.msg_id))
        s1 == [self EXCEPT !.msg_id = Get(r.msg_id)]
        p == r.reply.body.payload
    IN CASE p.type = "echo" ->
              {Result(s1, <<[r.reply EXCEPT !.body.payload =
                                [type |-> "echo_ok", echo |-> p.echo]]>>, FALSE)}
         [] p.type = "echo_ok" -> {Result(s1, <<>>, TRUE)}

UniqueStep(self, req) ==
    LET r == into_reply(req, Some(self.msg_id))
        s1 == [self EXCEPT !.msg_id = Get(r.msg_id)]
        p == r.reply.body.payload
    IN CASE p.type = "generate" ->
              {Result(s1, <<[r.reply EXCEPT !.body.payload =
                                [type |-> "generate_ok",
                                 unique_id |-> <<s1.id, s1.msg_id>>]]>>, FALSE)}
         [] p.type = "generate_ok" -> {Result(s1, <<>>, TRUE)}

\* Node::step of the running binary: the set of possible outcomes
step(v, self, req) ==
    CASE v = "broadcast_3b" -> BroadcastStep(self, req)
      [] v = "counter" -> CounterStep(self, req)
      [] v = "echo" -> EchoStep(self, req)
      [] v = "unique" -> UniqueStep(self, req)

----------------------------------------------------------------------------
\* What the harness and the other nodes can send to Self

StarTopology == [n \in Nodes |-> IF n = "n1" THEN <<"n2", "n3">> ELSE <<"n1">>]
\* a map without an entry for n1
PartialTopology == [n \in {"n2", "n3"} |-> <<"n1">>]
\* a map naming a node that was not in node_ids
StrangerTopology == [n \in Nodes |-> IF n = "n1" THEN <<"n2", Stranger>> ELSE <<"n1">>]
Topologies == {StarTopology, PartialTopology, StrangerTopology}

\* payloads of client requests, per binary
RequestPayloads(v) ==
    CASE v = "broadcast_3b" ->
            {[type |-> "broadcast", message |-> m] : m \in Values}
            \cup {[type |-> "read"]}
            \cup {[type |-> "topology", topology |-> t] : t \in Topologies}
      [] v = "counter" -> {[type |-> "add", delta |-> d] : d \in {1, 2}} \cup {[type |-> "read"]}
      [] v = "echo" -> {[type |-> "echo", echo |-> "hi"]}
      [] v = "unique" -> {[type |-> "generate"]}

\* payloads that are replies: decodable, but nothing the node asked for
ReplyPayloads(v) ==
    CASE v = "broadcast_3b" ->
            {[type |-> "broadcast_ok"], [type |-> "topology_ok"],
             [type |-> "read_ok", messages |-> {5}]}
      [] v = "counter" -> {[type |-> "add_ok"], [type |-> "read_ok", value |-> 1]}
      [] v = "echo" -> {[type |-> "echo_ok", echo |-> "hi"]}
      [] v = "unique" -> {[type |-> "generate_ok", unique_id |-> <<"n2", 2>>]}

Requests(v) == {Message(Client, Self, k, None, p) : k \in ReqIds, p \in RequestPayloads(v)}
Replies(v) == {Message(Client, Self, None, Some(1), p) : p \in ReplyPayloads(v)}

Senders == {"n2", Stranger}
Counters == {[n \in {"n1"} |-> 1], [n \in {"n2", Stranger} |-> 2]}
\* values a neighbor learned elsewhere and gossips in one message
Batch == {1, 2, 3, 4}
Gossips(v) ==
    CASE v = "broadcast_3b" ->
            {Gossip(s, Self, m) : s \in Senders, m \in (SUBSET Values) \cup {Batch}}
      [] v = "counter" -> {CounterGossip(s, Self, c) : s \in Senders, c \in Counters}
      [] OTHER -> {}

SelfInit == Message(Client, Self, Some(1), None, InitBody(Self, NodeIds))

----------------------------------------------------------------------------
\* NodeSpec: the worker of Self, constructed by init_from, stepping on decoded
\* messages in any order

StepRecord(req, pre, r) ==
    [req |-> req, pre |-> pre, post |-> r.node, out |-> r.out, panic |-> r.panic]

\* the worker's loop body on message req
Feed(req) ==
    /\ workerPc = "recv"
    /\ nread < MaxSteps
    /\ \E r \in step(variant, node[Self], req) :
          /\ node' = [node EXCEPT ![Self] = r.node]
          /\ stdout' = stdout \o r.out
          /\ workerPc' = IF r.panic THEN "panicked" ELSE "recv"
          /\ last' = Some(StepRecord(req, node[Self], r))
    /\ nread' = nread + 1
    /\ UNCHANGED <<variant, mainPc, tickPc, chan, rxAlive, cur, init_msg, exit,
                   nticks, enqLog, procLog, inputEnd, clusterVars>>

StepRequest == \E req \in Requests(variant) : Feed(req)
StepReply == \E req \in Replies(variant) : Feed(req)
StepGossip == \E req \in Gossips(variant) : Feed(req)
StepTick == HasTicker(variant) /\ Feed(GossipAlert)

ProcIdle ==
    /\ mainPc = "start" /\ tickPc = "none" /\ chan = <<>> /\ rxAlive = FALSE
    /\ cur = None /\ init_msg = None /\ exit = None /\ nread = 0 /\ nticks = 0
    /\ enqLog = <<>> /\ procLog = <<>> /\ inputEnd = None

ClusterIdle ==
    /\ net = {} /\ broadcasted = {} /\ budget = 0 /\ crashed = {}
    /\ covered = [n \in Nodes |-> [d \in Nodes |-> {}]]

NodeInit ==
    /\ variant \in Variants
    /\ node = [n \in Nodes |-> IF n = Self THEN init_from(variant, SelfInit.body.payload)
                               ELSE NoNode]
    /\ stdout = <<>>
    /\ workerPc = "recv"
    /\ last = None
    /\ ProcIdle
    /\ ClusterIdle

NodeNext == StepRequest \/ StepReply \/ StepGossip \/ StepTick

NodeSpec == NodeInit /\ [][NodeNext]_vars

----------------------------------------------------------------------------
\* ProcSpec: one process running main_loop (src/lib.rs:92-137)

\* exit statuses: main returned Ok, main returned Err, main panicked
ExitOk == 0
ExitErr == 1
ExitPanic == 101

Running == exit = None

\* the lines the harness sends to the process after the handshake
ProcLines(v) ==
    {m \in Requests(v) :
        /\ m.body.id = Some(7)
        /\ m.body.payload.type = "broadcast" => m.body.payload.message = 5
        /\ m.body.payload.type = "add" => m.body.payload.delta = 1}
    \cup {m \in Replies(v) : m.body.payload.type \in {"broadcast_ok", "add_ok", "echo_ok", "generate_ok"}}
    \cup {m \in Gossips(v) : v = "broadcast_3b" /\ m.src = "n2" /\ m.body.payload.messages = {5}}

InitLines == {Message(Client, Self, k, None, InitBody(Self, NodeIds)) : k \in {None, Some(1)}}

\* Senders of the channel still alive: main's tx (dropped only when main_loop
\* returns) and the clone the tick thread holds
SendersAlive == (IF Running THEN 1 ELSE 0) + (IF tickPc = "sleep" THEN 1 ELSE 0)

\* lines 97-105: the first line decodes as an init message
MainReadInit ==
    /\ Running /\ mainPc = "start"
    /\ \E m \in InitLines : init_msg' = Some(m)
    /\ mainPc' = "ack"
    /\ UNCHANGED <<coreVars, tickPc, chan, rxAlive, cur, exit, nread, nticks,
                   enqLog, procLog, inputEnd, clusterVars>>

\* lines 97-105: no first line (expect panics), a first line that does not decode
\* (Err returned), or an init_ok payload (panic)
MainInitFails ==
    /\ Running /\ mainPc = "start"
    /\ \E status \in {ExitPanic, ExitErr} : exit' = Some(status)
    /\ mainPc' = "done"
    /\ UNCHANGED <<coreVars, tickPc, chan, rxAlive, cur, init_msg, nread, nticks,
                   enqLog, procLog, inputEnd, clusterVars>>

\* MainWriteInitOk forgetting the acknowledgment
MainSkipInitOk ==
    /\ Running /\ mainPc = "ack"
    /\ mainPc' = "construct"
    /\ UNCHANGED <<coreVars, tickPc, chan, rxAlive, cur, init_msg, exit, nread,
                   nticks, enqLog, procLog, inputEnd, clusterVars>>

\* lines 107-111
MainWriteInitOk ==
    /\ Running /\ mainPc = "ack"
    /\ stdout' = Append(stdout, Get(into_init_ok(Get(init_msg))))
    /\ mainPc' = "construct"
    /\ UNCHANGED <<variant, node, workerPc, last, tickPc, chan, rxAlive, cur,
                   init_msg, exit, nread, nticks, enqLog, procLog, inputEnd, clusterVars>>

\* lines 113-117: the channel, then Node::init_from, which spawns the tick thread
MainInitFrom ==
    /\ Running /\ mainPc = "construct"
    /\ rxAlive' = TRUE
    /\ node' = [node EXCEPT ![Self] = init_from(variant, Get(init_msg).body.payload)]
    /\ tickPc' = IF HasTicker(variant) THEN "sleep" ELSE "none"
    /\ mainPc' = "spawn"
    /\ UNCHANGED <<variant, stdout, workerPc, last, chan, cur, init_msg, exit,
                   nread, nticks, enqLog, procLog, inputEnd, clusterVars>>

\* lines 119-124
MainSpawnWorker ==
    /\ Running /\ mainPc = "spawn"
    /\ workerPc' = "recv"
    /\ mainPc' = "read"
    /\ UNCHANGED <<variant, node, stdout, last, tickPc, chan, rxAlive, cur,
                   init_msg, exit, nread, nticks, enqLog, procLog, inputEnd, clusterVars>>

\* lines 128-133: a line decodes; tx.send fails once the Receiver is gone and
\* main_loop returns Ok
MainEnqueue ==
    /\ Running /\ mainPc = "read" /\ nread < MaxInput
    /\ nread' = nread + 1
    /\ \E msg \in ProcLines(variant) :
          IF rxAlive
          THEN /\ chan' = Append(chan, msg)
               /\ enqLog' = Append(enqLog, msg)
               /\ UNCHANGED <<mainPc, exit>>
          ELSE /\ exit' = Some(ExitOk)
               /\ mainPc' = "done"
               /\ UNCHANGED <<chan, enqLog>>
    /\ UNCHANGED <<coreVars, tickPc, rxAlive, cur, init_msg, nticks, procLog,
                   inputEnd, clusterVars>>

\* the events that came from the input stream (ticks have an empty src)
AppEvents(log) == SelectSeq(log, LAMBDA m : m.src # "")

\* number of events whose step has run to its end
Completed == Len(procLog) - (IF workerPc \in {"step", "panicked"} THEN 1 ELSE 0)

\* MainDecodeError skipping the bad line and reading on
MainDecodeSkip ==
    /\ Running /\ mainPc = "read" /\ nread < MaxInput
    /\ nread' = nread + 1
    /\ inputEnd' = Some([how |-> "malformed", nread |-> nread, enqueued |-> Len(AppEvents(enqLog))])
    /\ UNCHANGED <<coreVars, mainPc, exit, tickPc, chan, rxAlive, cur, init_msg, nticks,
                   enqLog, procLog, clusterVars>>

\* line 129: a line does not decode; `?` returns the error from main_loop and main
MainDecodeError ==
    /\ Running /\ mainPc = "read" /\ nread < MaxInput
    /\ nread' = nread + 1
    /\ exit' = Some(ExitErr)
    /\ mainPc' = "done"
    /\ inputEnd' = Some([how |-> "malformed", nread |-> nread, enqueued |-> Len(AppEvents(enqLog))])
    /\ UNCHANGED <<coreVars, tickPc, chan, rxAlive, cur, init_msg, nticks,
                   enqLog, procLog, clusterVars>>

\* line 128: the iterator ends at end-of-stream
MainEof ==
    /\ Running /\ mainPc = "read"
    /\ mainPc' = "join"
    /\ inputEnd' = Some([how |-> "eof", nread |-> nread, enqueued |-> Len(AppEvents(enqLog)),
                          pending |-> Len(enqLog) - Completed])
    /\ UNCHANGED <<coreVars, tickPc, chan, rxAlive, cur, init_msg, exit, nread,
                   nticks, enqLog, procLog, clusterVars>>

\* MainJoin returning without waiting for the worker
MainJoinNoWait ==
    /\ Running /\ mainPc = "join"
    /\ exit' = Some(ExitOk)
    /\ mainPc' = "done"
    /\ UNCHANGED <<coreVars, tickPc, chan, rxAlive, cur, init_msg, nread, nticks,
                   enqLog, procLog, inputEnd, clusterVars>>

\* lines 135-136: join returns when the worker thread has ended; expect panics
\* when it ended by a panic
MainJoin ==
    /\ Running /\ mainPc = "join"
    /\ workerPc \in {"done", "panicked"}
    /\ exit' = Some(IF workerPc = "panicked" THEN ExitPanic ELSE ExitOk)
    /\ mainPc' = "done"
    /\ UNCHANGED <<coreVars, tickPc, chan, rxAlive, cur, init_msg, nread, nticks,
                   enqLog, procLog, inputEnd, clusterVars>>

\* the tick thread of init_from: sleep, then `let _ = tx.send(GossipAlert)`
TickSend ==
    /\ Running /\ tickPc = "sleep" /\ nticks < MaxTicks
    /\ nticks' = nticks + 1
    /\ IF rxAlive
       THEN chan' = Append(chan, GossipAlert) /\ enqLog' = Append(enqLog, GossipAlert)
       ELSE UNCHANGED <<chan, enqLog>>
    /\ UNCHANGED <<coreVars, mainPc, tickPc, rxAlive, cur, init_msg, exit, nread,
                   procLog, inputEnd, clusterVars>>

\* WorkerRecv taking the newest event instead of the oldest
WorkerRecvNewest ==
    /\ Running /\ workerPc = "recv"
    /\ chan # <<>>
    /\ cur' = Some(chan[Len(chan)])
    /\ chan' = SubSeq(chan, 1, Len(chan) - 1)
    /\ procLog' = Append(procLog, chan[Len(chan)])
    /\ workerPc' = "step"
    /\ UNCHANGED <<variant, node, stdout, last, mainPc, tickPc, rxAlive, init_msg,
                   exit, nread, nticks, enqLog, inputEnd, clusterVars>>

\* line 121, `for msg in rx`: the oldest queued event, or the end of the loop
\* once the queue is empty and every Sender has been dropped
WorkerRecv ==
    /\ Running /\ workerPc = "recv"
    /\ IF chan # <<>>
       THEN /\ cur' = Some(Head(chan))
            /\ chan' = Tail(chan)
            /\ procLog' = Append(procLog, Head(chan))
            /\ workerPc' = "step"
            /\ UNCHANGED rxAlive
       ELSE /\ SendersAlive = 0
            /\ workerPc' = "done"
            /\ rxAlive' = FALSE
            /\ UNCHANGED <<cur, chan, procLog>>
    /\ UNCHANGED <<variant, node, stdout, last, mainPc, tickPc, init_msg,
                   exit, nread, nticks, enqLog, inputEnd, clusterVars>>

\* line 122: node.step(msg, &mut stdout).expect(..); a panic unwinds the worker
\* thread, dropping the Receiver and the events still queued
WorkerStep ==
    /\ Running /\ workerPc = "step"
    /\ \E r \in step(variant, node[Self], Get(cur)) :
          /\ stdout' = stdout \o r.out
          /\ last' = Some(StepRecord(Get(cur), node[Self], r))
          /\ IF r.panic
             THEN /\ workerPc' = "panicked"
                  /\ rxAlive' = FALSE
                  /\ chan' = <<>>
                  /\ UNCHANGED node
             ELSE /\ workerPc' = "recv"
                  /\ node' = [node EXCEPT ![Self] = r.node]
                  /\ UNCHANGED <<rxAlive, chan>>
    /\ cur' = None
    /\ UNCHANGED <<variant, mainPc, tickPc, init_msg, exit, nread, nticks,
                   enqLog, procLog, inputEnd, clusterVars>>

ProcInit ==
    /\ variant \in Variants
    /\ node = [n \in Nodes |-> NoNode]
    /\ stdout = <<>>
    /\ workerPc = "none"
    /\ last = None
    /\ ProcIdle
    /\ ClusterIdle

MainNext ==
    \/ MainReadInit \/ MainInitFails \/ MainWriteInitOk \/ MainInitFrom
    \/ MainSpawnWorker \/ MainEnqueue \/ MainDecodeError \/ MainEof \/ MainJoin

WorkerNext == WorkerRecv \/ WorkerStep

ProcNext == MainNext \/ WorkerNext \/ TickSend

ProcSpec == ProcInit /\ [][ProcNext]_vars

\* every thread that can run does run: the reader gets a line or end-of-stream,
\* the worker is scheduled, the tick thread wakes up
ProcLiveSpec ==
    ProcSpec /\ WF_vars(MainNext) /\ WF_vars(WorkerNext) /\ WF_vars(TickSend)

----------------------------------------------------------------------------
\* Spec: a cluster of broadcast_3b processes, one per id of Nodes, all initialised
\* with the same node_ids. Each process's queue and worker are folded into the
\* step that the worker eventually takes on an event; what a node writes to
\* another node travels through net, and nothing is lost.

Up(n) == n \notin crashed

ClusterStepRecord(n, req, r) == [at |-> n, req |-> req, out |-> r.out, panic |-> r.panic]

\* the effect of node n's worker stepping on req with outcome r
Stepped(n, req, r) ==
    /\ node' = [node EXCEPT ![n] = IF r.panic THEN @ ELSE r.node]
    /\ crashed' = IF r.panic THEN crashed \cup {n} ELSE crashed
    /\ last' = Some(ClusterStepRecord(n, req, r))

ToNodes(out) == {out[i] : i \in {j \in 1..Len(out) : out[j].dst \in Nodes}}

ClientRequest(n, payload) ==
    /\ Up(n) /\ budget > 0
    /\ budget' = budget - 1
    /\ LET req == Message(Client, n, Some(7), None, payload) IN
       \E r \in step(variant, node[n], req) : Stepped(n, req, r)
    /\ UNCHANGED <<variant, stdout, workerPc, procVars, net, covered>>

ClientBroadcast ==
    \E n \in Nodes, v \in Values :
        /\ ClientRequest(n, [type |-> "broadcast", message |-> v])
        /\ broadcasted' = broadcasted \cup {v}

ClientRead ==
    \E n \in Nodes :
        /\ ClientRequest(n, [type |-> "read"])
        /\ UNCHANGED broadcasted

ClientTopology ==
    \E n \in Nodes :
        /\ ClientRequest(n, [type |-> "topology", topology |-> StarTopology])
        /\ UNCHANGED broadcasted

\* node n's tick thread fires and its worker steps on the GossipAlert; the
\* period of the ticks is long enough for the gossip of the previous ticks to
\* have reached its destinations, up to MaxInFlight messages
Tick(n) ==
    /\ Up(n)
    /\ Cardinality(net) <= MaxInFlight
    /\ \E r \in step(variant, node[n], GossipAlert) :
          /\ Stepped(n, GossipAlert, r)
          /\ net' = net \cup ToNodes(r.out)
          /\ covered' = [covered EXCEPT ![n] =
                [d \in Nodes |-> IF \E i \in 1..Len(r.out) : r.out[i].dst = d
                                 THEN @[d] \cup node[n].messages ELSE @[d]]]
    /\ UNCHANGED <<variant, stdout, workerPc, procVars, broadcasted, budget>>

\* a gossip message reaches its destination, whose worker steps on it
Deliver(m) ==
    /\ m \in net /\ Up(m.dst)
    /\ net' = net \ {m}
    /\ \E r \in step(variant, node[m.dst], m) : Stepped(m.dst, m, r)
    /\ UNCHANGED <<variant, stdout, workerPc, procVars, broadcasted, budget, covered>>

ClusterInit(nodes, requests) ==
    /\ variant = "broadcast_3b"
    /\ node = nodes
    /\ stdout = <<>>
    /\ workerPc = "none"
    /\ last = None
    /\ ProcIdle
    /\ net = {} /\ broadcasted = {} /\ crashed = {}
    /\ covered = [n \in Nodes |-> [d \in Nodes |-> {}]]
    /\ budget = requests

Constructed == [n \in Nodes |-> init_from("broadcast_3b", InitBody(n, NodeIds))]

\* Topologies the harness sends to every node right after the handshake
LineTopology == [n \in Nodes |-> IF n = "n2" THEN <<"n1", "n3">> ELSE <<"n2">>]
StaticTopologies == {StarTopology, LineTopology}

\* every node after its step on the topology message t
Configured(t) ==
    [n \in Nodes |->
        LET req == Message(Client, n, Some(1), None, [type |-> "topology", topology |-> t])
            r == CHOOSE x \in step("broadcast_3b", Constructed[n], req) : TRUE
        IN r.node]

\* the nodes as init_from leaves them (neighbors: every id of node_ids, the node
\* itself included), or after the harness has sent them a topology
Init ==
    \/ ClusterInit(Constructed, MaxReqs)
    \/ \E t \in StaticTopologies : ClusterInit(Configured(t), MaxReqs)

Next ==
    \/ ClientBroadcast \/ ClientRead \/ ClientTopology
    \/ \E n \in Nodes : Tick(n)
    \/ \E m \in net : Deliver(m)

Spec == Init /\ [][Next]_vars

\* the cluster under a static topology: no further topology message
LiveNext ==
    \/ ClientBroadcast \/ ClientRead
    \/ \E n \in Nodes : Tick(n)
    \/ \E m \in net : Deliver(m)

Envelopes == {Gossip(s, d, v) : s \in Nodes, d \in Nodes, v \in SUBSET Values}

\* every node keeps receiving ticks, and every gossip message in flight is
\* eventually delivered and processed
LiveSpec ==
    /\ Init /\ [][LiveNext]_vars
    /\ \A n \in Nodes : SF_vars(Tick(n))
    /\ \A m \in Envelopes : WF_vars(Deliver(m))

----------------------------------------------------------------------------
\* Claims settled on NodeSpec

RequestTypes == {"broadcast", "read", "topology", "add", "generate", "echo"}
IsRequest(m) == m.body.payload.type \in RequestTypes
IsGossip(m) == m.body.payload.type = "extended" /\ m.body.payload.ext = "Gossip"
IsTick(m) == m.body.payload.type = "extended" /\ m.body.payload.ext = "GossipAlert"

Correlated(req, line) ==
    /\ line.body.in_reply_to = req.body.id
    /\ line.src = req.dst
    /\ line.dst = req.src

\* C3: a step on a request with id k from s to d either panics without writing
\* or writes exactly one line, with in_reply_to = k, src = d and dest = s; and
\* no line any step writes carries an in_reply_to other than the id of the
\* message that step consumed, addressed back to its sender.
ReplyCorrelation ==
    \A l \in last :
        /\ IsRequest(l.req) =>
              \/ l.panic /\ l.out = <<>>
              \/ ~l.panic /\ Len(l.out) = 1 /\ Correlated(l.req, l.out[1])
        /\ \A i \in 1..Len(l.out) :
              l.out[i].body.in_reply_to # None => Correlated(l.req, l.out[i])

ReplyCorrelationWitness ==
    \E l \in last :
        /\ IsRequest(l.req) /\ l.req.body.id = Some(7) /\ Len(l.out) = 1
        /\ l.out[1].body.in_reply_to = Some(7)
        /\ l.out[1].body.id = Some(2)
        /\ l.out[1].src = Self /\ l.out[1].dst = Client

\* the effect of merging values received from sender s
GossipMerged(l) ==
    LET s == l.req.src
        values == l.req.body.payload.messages
    IN /\ ~l.panic
       /\ s \in DOMAIN l.pre.known
       /\ DOMAIN l.post.known = DOMAIN l.pre.known
       /\ l.post.messages = l.pre.messages \cup values
       /\ l.post.known[s] = l.pre.known[s] \cup values
       /\ \A n \in DOMAIN l.pre.known \ {s} : l.post.known[n] = l.pre.known[n]
       /\ l.post.neightbors = l.pre.neightbors
       /\ l.out = <<>>

\* C10 as stated: a Gossip step from any sender merges the values into messages
\* and known[sender], changes nothing else and writes nothing.
GossipReceiptAnySender ==
    \A l \in last : (variant = "broadcast_3b" /\ IsGossip(l.req)) => GossipMerged(l)

\* C10 amended: a Gossip step from a sender that has an entry in known (an id of
\* the init node_ids) merges the values into messages and known[sender],
\* changes nothing else and writes nothing; from any other sender the step
\* panics, having changed and written nothing.
GossipReceipt ==
    \A l \in last : (variant = "broadcast_3b" /\ IsGossip(l.req)) =>
        IF l.req.src \in DOMAIN l.pre.known
        THEN GossipMerged(l)
        ELSE l.panic /\ l.post = l.pre /\ l.out = <<>>

GossipReceiptWitness ==
    \E l \in last :
        /\ variant = "broadcast_3b" /\ IsGossip(l.req) /\ ~l.panic
        /\ l.req.src = "n2"
        /\ l.req.body.payload.messages = {6}
        /\ l.pre.messages = {5}
        /\ l.pre.known["n2"] = {}
        /\ l.post.messages = {5, 6}
        /\ l.post.known["n2"] = {6}

IsBroadcastNode == variant = "broadcast_3b"
IsStepOn(l, type) == IsBroadcastNode /\ l.req.body.payload.type = type

\* C11: a Broadcast(v) step leaves messages = old messages \cup {v} and writes
\* exactly one broadcast_ok; when v was already held, messages is unchanged;
\* and a read that follows returns the set, with v in it once.
IdempotentInsertion ==
    /\ [](\A l \in last : IsStepOn(l, "broadcast") =>
            LET v == l.req.body.payload.message IN
            /\ ~l.panic
            /\ l.post.messages = l.pre.messages \cup {v}
            /\ v \in l.pre.messages => l.post.messages = l.pre.messages
            /\ Len(l.out) = 1
            /\ l.out[1].body.payload = [type |-> "broadcast_ok"])
    /\ [][\A l \in last, l2 \in last' :
            (IsStepOn(l, "broadcast") /\ nread' = nread + 1 /\ IsStepOn(l2, "read")) =>
                /\ l.req.body.payload.message \in l2.out[1].body.payload.messages
                /\ l2.out[1].body.payload.messages = l.post.messages]_vars

IdempotentInsertionWitness ==
    /\ IsBroadcastNode /\ Len(stdout) = 3
    /\ stdout[1].body.payload.type = "broadcast_ok"
    /\ stdout[2].body.payload.type = "broadcast_ok"
    /\ stdout[3].body.payload = [type |-> "read_ok", messages |-> {5}]
    /\ node[Self].messages = {5}

\* C12: a Read step writes one read_ok whose messages is the node's set at the
\* moment of the step, and leaves messages, known and neighbors (everything but
\* the id counter) exactly as they were.
ReadSnapshot ==
    \A l \in last : IsStepOn(l, "read") =>
        /\ ~l.panic
        /\ Len(l.out) = 1
        /\ l.out[1].body.payload = [type |-> "read_ok", messages |-> l.pre.messages]
        /\ l.post.messages = l.pre.messages
        /\ l.post.known = l.pre.known
        /\ l.post.neightbors = l.pre.neightbors
        /\ l.post = [l.pre EXCEPT !.msg_id = @ + 1]
        /\ node[Self] = l.post

ReadSnapshotWitness ==
    \E l \in last :
        /\ IsStepOn(l, "read")
        /\ l.pre.messages = {5, 6} /\ l.pre.known["n2"] = {6}
        /\ l.out[1].body.payload.messages = {5, 6}
        /\ node[Self].messages = {5, 6} /\ node[Self].known["n2"] = {6}

\* C13: a topology step whose map has an entry for the node leaves neighbors
\* equal to exactly that entry's list, messages and known unchanged, and writes
\* one topology_ok.
TopologyReplacement ==
    \A l \in last :
        (IsStepOn(l, "topology") /\ l.pre.id \in DOMAIN l.req.body.payload.topology) =>
            /\ ~l.panic
            /\ l.post.neightbors = l.req.body.payload.topology[l.pre.id]
            /\ l.post.messages = l.pre.messages
            /\ l.post.known = l.pre.known
            /\ Len(l.out) = 1
            /\ l.out[1].body.payload = [type |-> "topology_ok"]

TopologyReplacementWitness ==
    \E l \in last :
        /\ IsStepOn(l, "topology")
        /\ l.pre.neightbors = <<"n2", Stranger>> /\ l.pre.messages = {5}
        /\ l.post.neightbors = <<"n2", "n3">> /\ node[Self].messages = {5}
        /\ DOMAIN l.post.known = Nodes

HasId(m) == m.body.id # None

\* C14: the id counter starts at 1, the ids carried by the lines the node
\* writes are 1, 2, 3, ... in the order written, the counter is always one more
\* than the last id assigned, and no step lowers it.
OutboundIds ==
    LET ids == SelectSeq(stdout, HasId) IN
    /\ \A i \in 1..Len(ids) : ids[i].body.id = Some(i)
    /\ last = None => node[Self].msg_id = 1
    /\ workerPc # "panicked" => node[Self].msg_id = Len(ids) + 1
    /\ \A l \in last : l.post.msg_id >= l.pre.msg_id

OutboundIdsWitness ==
    /\ Len(stdout) > 2
    /\ stdout[1].body.id = Some(1)
    /\ stdout[2].body.id = None
    /\ stdout[Len(stdout)].body.id = Some(2)
    /\ node[Self].msg_id = 3

\* C15 as stated: every gossip message a tick step writes carries an id drawn
\* from the node's counter.
GossipFreshId ==
    \A l \in last : IsTick(l.req) =>
        \A i \in 1..Len(l.out) :
            /\ HasId(l.out[i])
            /\ Get(l.out[i].body.id) >= l.pre.msg_id
            /\ Get(l.out[i].body.id) < l.post.msg_id

\* C15 amended: the gossip messages a tick step writes (broadcast and counter
\* variants) carry no id and no in_reply_to, and the tick leaves the id counter
\* where it was; only replies to requests carry an id.
GossipWithoutId ==
    \A l \in last :
        /\ IsTick(l.req) =>
              /\ l.post.msg_id = l.pre.msg_id
              /\ \A i \in 1..Len(l.out) :
                    /\ IsGossip(l.out[i])
                    /\ l.out[i].body.id = None
                    /\ l.out[i].body.in_reply_to = None
        /\ \A i \in 1..Len(l.out) : HasId(l.out[i]) <=> IsRequest(l.req)

GossipWithoutIdWitness ==
    \E l \in last :
        /\ IsTick(l.req) /\ l.pre.msg_id = 2 /\ Len(l.out) = 2
        /\ l.out[1].src = Self /\ l.out[1].dst = "n2" /\ l.out[1].body.id = None
        /\ Len(stdout) = 3 /\ stdout[1].body.id = Some(1)

\* m[k] is the larger of a[k] and b[k], a missing key counting as absent
IsMaxAt(m, a, b, k) ==
    /\ k \in DOMAIN a => m[k] >= a[k]
    /\ k \in DOMAIN b => m[k] >= b[k]
    /\ \/ k \in DOMAIN a /\ m[k] = a[k]
       \/ k \in DOMAIN b /\ m[k] = b[k]

\* C16: a counter Gossip step leaves, for every key, the larger of the local
\* and the incoming value; merge is commutative and idempotent; and over Add and
\* Gossip steps no slot and no read value (the sum of the slots) decreases.
CounterMergeLaws ==
    \A l \in last : variant = "counter" =>
        LET a == l.pre.inner
            m == l.post.inner
        IN /\ IsGossip(l.req) =>
                 LET b == l.req.body.payload.counter IN
                 /\ ~l.panic /\ l.out = <<>>
                 /\ DOMAIN m = DOMAIN a \cup DOMAIN b
                 /\ \A k \in DOMAIN m : IsMaxAt(m, a, b, k)
                 /\ CounterMerge(a, b) = CounterMerge(b, a)
                 /\ CounterMerge(a, a) = a /\ CounterMerge(b, b) = b
                 /\ CounterMerge(m, b) = m
           /\ (IsGossip(l.req) \/ l.req.body.payload.type = "add") =>
                 /\ \A k \in DOMAIN a : k \in DOMAIN m /\ m[k] >= a[k]
                 /\ CounterSum(m) >= CounterSum(a)
           /\ l.req.body.payload.type = "read" =>
                 /\ m = a
                 /\ l.out[1].body.payload = [type |-> "read_ok", value |-> CounterSum(a)]

CounterMergeLawsWitness ==
    \E l \in last :
        /\ variant = "counter" /\ IsGossip(l.req)
        /\ l.req.body.payload.counter = [n \in {"n1"} |-> 1]
        /\ l.pre.inner["n1"] = 2
        /\ Stranger \in DOMAIN l.pre.inner /\ l.pre.inner[Stranger] = 2
        /\ l.pre.inner["n3"] = 0
        /\ l.post.inner = l.pre.inner

\* the gossip line a tick writes to neighbor d: from the node, to d, carrying
\* every value d is not known to have and only values the node holds
IsDeltaFor(line, pre, d) ==
    /\ IsGossip(line) /\ line.src = pre.id /\ line.dst = d
    /\ (pre.messages \ pre.known[d]) \subseteq line.body.payload.messages
    /\ line.body.payload.messages \subseteq pre.messages

\* C17: a tick step writes exactly one gossip message per entry of neighbors,
\* in list order, from the node to that neighbor (also when the delta is
\* empty), each carrying every value of messages - known[neighbor] and only
\* values of messages; the tick changes nothing of the node.
TickDelta ==
    \A l \in last : (IsBroadcastNode /\ IsTick(l.req)) =>
        /\ ~l.panic
        /\ l.post = l.pre
        /\ Len(l.out) = Len(l.pre.neightbors)
        /\ \A i \in 1..Len(l.out) : IsDeltaFor(l.out[i], l.pre, l.pre.neightbors[i])

\* the same for the nodes whose neighbors all have an entry in known
TickDeltaKnownNeighbors ==
    \A l \in last :
        (IsBroadcastNode /\ IsTick(l.req) /\ Range(l.pre.neightbors) \subseteq DOMAIN l.pre.known) =>
            /\ ~l.panic
            /\ l.post = l.pre
            /\ Len(l.out) = Len(l.pre.neightbors)
            /\ \A i \in 1..Len(l.out) : IsDeltaFor(l.out[i], l.pre, l.pre.neightbors[i])

\* the values of a tick's gossip line that its destination is known to have
Redundant(line, pre) == line.body.payload.messages \cap pre.known[line.dst]
Unknown(line, pre) == pre.messages \ pre.known[line.dst]
Overlap(line, pre) == pre.messages \cap pre.known[line.dst]
Cap(line, pre) ==
    Min(Cardinality(Unknown(line, pre)),
        (RatioNum * Cardinality(Overlap(line, pre))) \div RatioDen)

\* C18 as stated: in every gossip a tick writes, at most
\* min(|unknown|, floor(|overlap| * 0.3236)) values are already in
\* known[neighbor], and the payload is empty when unknown is empty.
BoundedRedundancy ==
    \A l \in last : (IsBroadcastNode /\ IsTick(l.req)) =>
        \A i \in 1..Len(l.out) :
            /\ Cardinality(Redundant(l.out[i], l.pre)) <= Cap(l.out[i], l.pre)
            /\ Unknown(l.out[i], l.pre) = {} => l.out[i].body.payload.messages = {}

\* C18 amended: the payload is unknown plus a sample of overlap; the sample is
\* empty when min(|unknown|, floor(|overlap| * 0.3236)) is 0, so the payload is
\* empty when unknown is empty; when that number is positive each value of
\* overlap is drawn independently, and the sample can be any subset of overlap.
RedundantSample ==
    \A l \in last : (IsBroadcastNode /\ IsTick(l.req)) =>
        \A i \in 1..Len(l.out) :
            LET line == l.out[i]
                sample == Redundant(line, l.pre)
            IN /\ line.body.payload.messages = Unknown(line, l.pre) \cup sample
               /\ sample \subseteq Overlap(line, l.pre)
               /\ Cap(line, l.pre) = 0 => sample = {}
               /\ Unknown(line, l.pre) = {} => line.body.payload.messages = {}

RedundantSampleWitness ==
    \E l \in last :
        /\ IsBroadcastNode /\ IsTick(l.req)
        /\ l.pre.messages = Batch \cup {5} /\ l.pre.known["n2"] = Batch
        /\ \E i \in 1..Len(l.out) :
              /\ l.out[i].dst = "n2"
              /\ Cap(l.out[i], l.pre) = 1
              /\ Redundant(l.out[i], l.pre) = Batch

\* C20: over any step of a broadcast node (broadcast, read, topology, tick,
\* gossip, *_ok, panicking or not) messages and every known[n] after the step
\* are supersets of what they were before it, and known loses no entry.
MonotonicGrowth ==
    \A l \in last : IsBroadcastNode =>
        /\ l.pre.messages \subseteq l.post.messages
        /\ DOMAIN l.pre.known \subseteq DOMAIN l.post.known
        /\ \A n \in DOMAIN l.pre.known : l.pre.known[n] \subseteq l.post.known[n]
        /\ node[Self] = l.post

MonotonicGrowthWitness ==
    \E l \in last :
        /\ IsStepOn(l, "read")
        /\ l.pre.messages = Batch \cup {5} /\ l.pre.known["n2"] = Batch
        /\ node[Self].messages = Batch \cup {5} /\ node[Self].known["n2"] = Batch

StrayReplyTypes == {"broadcast_ok", "read_ok", "topology_ok"}

\* C21: a step of a broadcast node on a broadcast_ok, read_ok or topology_ok
\* payload succeeds, writes nothing, and leaves messages, known, neighbors and
\* the id counter as they were; the worker goes on to the next event.
StrayRepliesIgnored ==
    \A l \in last :
        (IsBroadcastNode /\ l.req.body.payload.type \in StrayReplyTypes) =>
            /\ ~l.panic
            /\ l.out = <<>>
            /\ l.post.messages = l.pre.messages
            /\ l.post.known = l.pre.known
            /\ l.post.neightbors = l.pre.neightbors
            /\ l.post.msg_id = l.pre.msg_id
            /\ node[Self] = l.pre
            /\ workerPc = "recv"

StrayRepliesIgnoredWitness ==
    \E l \in last :
        /\ IsBroadcastNode /\ l.req.body.payload.type = "read_ok"
        /\ l.pre.messages = {5, 6} /\ l.pre.known["n2"] = {6} /\ l.pre.msg_id = 2
        /\ node[Self] = l.pre /\ Len(stdout) = 1

\* C22: in every reachable state of a broadcast node each id in neighbors has
\* an entry in known, also after a topology message, and no tick step fails.
NeighborsKnown ==
    IsBroadcastNode =>
        /\ Range(node[Self].neightbors) \subseteq DOMAIN node[Self].known
        /\ \A l \in last : IsTick(l.req) => ~l.panic

\* what holds instead: known keeps exactly the ids of the init node_ids
KnownKeysFixed ==
    IsBroadcastNode => DOMAIN node[Self].known = Range(NodeIds)

----------------------------------------------------------------------------
\* Claims settled on ProcSpec and ProcLiveSpec

IsPrefix(a, b) == Len(a) <= Len(b) /\ SubSeq(b, 1, Len(a)) = a

OkType(t) ==
    CASE t = "broadcast" -> "broadcast_ok"
      [] t = "read" -> "read_ok"
      [] t = "topology" -> "topology_ok"
      [] t = "add" -> "add_ok"
      [] t = "echo" -> "echo_ok"
      [] t = "generate" -> "generate_ok"

IsReplyLine(m) ==
    m.body.payload.type \in {"broadcast_ok", "read_ok", "topology_ok", "add_ok",
                             "echo_ok", "generate_ok"}

InitOkFor(m) ==
    [src |-> m.dst, dst |-> m.src,
     body |-> [id |-> None, in_reply_to |-> m.body.id, payload |-> [type |-> "init_ok"]]]

\* C4: the first line written is the init_ok for the init message (in_reply_to
\* = its id, back to its sender), it is written once, and as long as nothing has
\* been written the node is not constructed, no channel, tick thread or worker
\* exists, and no tick or input line has been read, enqueued or processed.
HandshakeFirst ==
    /\ stdout # <<>> => init_msg # None /\ stdout[1] = InitOkFor(Get(init_msg))
    /\ \A i \in 2..Len(stdout) : stdout[i].body.payload.type # "init_ok"
    /\ stdout = <<>> =>
          /\ node[Self] = NoNode
          /\ rxAlive = FALSE /\ tickPc = "none" /\ workerPc = "none"
          /\ nticks = 0 /\ nread = 0
          /\ enqLog = <<>> /\ procLog = <<>> /\ chan = <<>> /\ cur = None

HandshakeFirstWitness ==
    /\ Len(stdout) >= 2
    /\ stdout[1].body.in_reply_to = Some(1)
    /\ stdout[1].body.payload.type = "init_ok"
    /\ nticks > 0 /\ nread > 0 /\ Len(procLog) >= 2

\* C5: the worker holds at most one event at a time; the events it has received
\* are, in order, exactly the first events the reader and the tick thread
\* enqueued, the rest still being queued in that order; and whenever it is about
\* to take an event, the replies on stdout are, in order, those of the requests
\* among the events already stepped on.
FifoProcessing ==
    /\ IsPrefix(procLog, enqLog)
    /\ rxAlive => enqLog = procLog \o chan
    /\ (workerPc = "step") <=> (cur # None)
    /\ cur # None => cur = Some(procLog[Len(procLog)])
    /\ LET reqs == SelectSeq(SubSeq(procLog, 1, Completed), IsRequest)
           reps == SelectSeq(stdout, IsReplyLine)
       IN /\ Len(reps) = Len(reqs)
          /\ \A i \in 1..Len(reqs) :
                /\ Correlated(reqs[i], reps[i])
                /\ reps[i].body.payload.type = OkType(reqs[i].body.payload.type)

FifoProcessingWitness ==
    /\ workerPc = "recv" /\ Len(procLog) = 3 /\ chan # <<>>
    /\ IsTick(procLog[1]) /\ IsRequest(procLog[2]) /\ IsTick(chan[1])
    /\ procLog[2].body.payload.type # procLog[3].body.payload.type
    /\ IsRequest(procLog[3])

\* C6: once the reader has seen end-of-stream, the process eventually ends.
EofTerminates == (mainPc = "join") ~> (exit # None)

AllAppProcessed ==
    Len(AppEvents(SubSeq(procLog, 1, Completed))) = Len(AppEvents(enqLog))

IsFatalTopology(m) ==
    /\ m.body.payload.type = "topology"
    /\ Self \notin DOMAIN m.body.payload.topology

MalformedFatal ==
    \A e \in inputEnd : e.how = "malformed" =>
        /\ exit = Some(ExitErr) /\ ExitErr # 0
        /\ nread = e.nread + 1
        /\ Len(AppEvents(enqLog)) = e.enqueued

MalformedFatalWitness ==
    \E e \in inputEnd :
        /\ e.how = "malformed" /\ e.enqueued = 1 /\ e.nread = 1
        /\ exit = Some(ExitErr) /\ chan # <<>>

----------------------------------------------------------------------------
\* Claims settled on Spec and LiveSpec

Converged == \A n \in Nodes : node[n].messages = broadcasted

\* C1: under a static connected topology, with ticks at every node and every
\* gossip delivered, from some point on every node's messages set equals the
\* set of all values ever broadcast, for good.
Convergence == <>[]Converged

ConvergenceWitness ==
    /\ Converged /\ broadcasted = {5, 6} /\ net = {} /\ budget = 0
    /\ node["n1"].neightbors = <<"n2">> /\ node["n3"].neightbors = <<"n2">>
    /\ node["n1"].known["n2"] = {6} /\ node["n3"].known["n2"] = {5}
    /\ node["n2"].known["n1"] = {5} /\ node["n2"].known["n3"] = {6}

\* a gossip message from n to d carrying v is in flight
Carried(n, d, v) ==
    \E m \in net : m.src = n /\ m.dst = d /\ IsGossip(m) /\ v \in m.body.payload.messages

\* C2: once a node holding v has stepped on a tick, every neighbor it gossiped
\* to holds v as soon as that gossip is delivered (v is in the neighbor's
\* messages or still in flight to it); a node holds only values that were
\* broadcast; and a read returns exactly the messages of the node it is sent
\* to. With {n1:[n2,n3], n2:[n1], n3:[n1]} and 5 broadcast to n1, a read on n2
\* or n3 after n1's tick has been delivered therefore returns {5}.
OneHopPerTick ==
    /\ \A n \in Nodes, d \in Nodes : \A v \in covered[n][d] :
          v \in node[d].messages \/ Carried(n, d, v)
    /\ \A n \in Nodes : node[n].messages \subseteq broadcasted
    /\ \A l \in last : (l.req.body.payload.type = "read" /\ ~l.panic) =>
          /\ Len(l.out) = 1
          /\ l.out[1].body.payload.type = "read_ok"
          /\ l.out[1].body.payload.messages = node[l.at].messages

OneHopPerTickWitness ==
    /\ \A n \in Nodes : node[n].neightbors = StarTopology[n]
    /\ broadcasted = {5} /\ net = {}
    /\ 5 \in covered["n1"]["n2"] /\ 5 \in covered["n1"]["n3"]
    /\ node["n1"].known["n2"] = {} /\ node["n1"].known["n3"] = {}
    /\ node["n2"].known["n1"] = {5} /\ node["n3"].messages = {5}
    /\ \E l \in last :
          /\ l.at = "n2" /\ l.req.body.payload.type = "read"
          /\ l.out[1].body.payload.messages = {5}

\* C19: in a cluster whose gossip comes only from node ticks, what node A
\* records in known[B] is a subset of the messages B itself holds.
KnownLowerBound ==
    \A a \in Nodes, b \in Nodes :
        b \in DOMAIN node[a].known => node[a].known[b] \subseteq node[b].messages

KnownLowerBoundWitness ==
    /\ node["n1"].known["n2"] = {6} /\ node["n2"].known["n1"] = {5}
    /\ node["n3"].known["n2"] = {5, 6} /\ node["n3"].known["n1"] = {}
    /\ net = {}

\* C23: in a cluster whose gossip comes only from node ticks, every value in a
\* node's messages, in any known[n], in a gossip in flight and in a read_ok
\* reply was the argument of a Broadcast request some node processed earlier.
NoInventedValues ==
    /\ \A n \in Nodes :
          /\ node[n].messages \subseteq broadcasted
          /\ \A b \in DOMAIN node[n].known : node[n].known[b] \subseteq broadcasted
    /\ \A m \in net : IsGossip(m) => m.body.payload.messages \subseteq broadcasted
    /\ \A l \in last : \A i \in 1..Len(l.out) :
          /\ l.out[i].body.payload.type = "read_ok" =>
                l.out[i].body.payload.messages \subseteq broadcasted
          /\ IsGossip(l.out[i]) => l.out[i].body.payload.messages \subseteq broadcasted

NoInventedValuesWitness ==
    /\ broadcasted = {5}
    /\ node["n3"].known["n1"] = {5} /\ node["n2"].messages = {5}
    /\ \E l \in last :
          /\ l.at = "n3" /\ l.out # <<>>
          /\ l.out[1].body.payload = [type |-> "read_ok", messages |-> {5}]

====
